---- MODULE Spec2Model ----
(***************************************************************************)
(* Model of the terminal selection interface of src/main.rs: the layout    *)
(* computation (Layout::new), the render operations (clear, write_layout,  *)
(* set_pointer, clear_pointer), the event loop of Interface::run, which    *)
(* merges the keystroke stream, the SIGWINCH channel and the download      *)
(* completion channel, and the two auxiliary threads (sigwinch_handler,    *)
(* mock).                                                                  *)
(*                                                                         *)
(* One iteration of the loop is one step, Tick: read one byte, poll the    *)
(* two channels, decode and handle the byte.  The auxiliary threads only   *)
(* send on their channels, which the loop reads at the start of the next   *)
(* iteration, so their steps interleave between iterations.                *)
(***************************************************************************)
EXTENDS Integers, Sequences, FiniteSets, TLC

VARIABLES
    data,       \* Interface.data: the catalog, as the sequence its HashMap iterates in
    display,    \* Interface.display: <<formatted text, selected>> per row
    widths,     \* Interface.widths
    lay,        \* Interface.lay
    pointer,    \* Interface.pointer: <<col, row>>
    n,          \* Interface.n: the row count
    w,          \* Interface.w: the rendered row width
    index,      \* Interface.index: 0-based, as in the code
    pc,         \* position of run: "start", "loop", "exited"
    winch,      \* messages pending in the SIGWINCH channel
    listener,   \* the sigwinch_handler thread
    dl_rx,      \* run's dl_rx: 0 is None, t > 0 the receiver of tasks[t]
    tasks,      \* the download threads spawned by init_dl, in spawn order
    screen,     \* the terminal's lines: row -> set of written cells
    cursorVisible,
    failed,     \* the output operation whose failure ended run
    exit,       \* why the loop was left
    result      \* what run returned

iface == <<data, display, widths, lay, pointer, n, w, index>>
vars == <<data, display, widths, lay, pointer, n, w, index, pc, winch, listener,
          dl_rx, tasks, screen, cursorVisible, failed, exit, result>>

----------------------------------------------------------------------------
(* Bounds of the model *)

MaxRows == 2
MaxTasks == 2
MaxWinch == 1

(* Program constants *)

BorderCol == 10
BorderRow == 2
BORDER == <<BorderCol, BorderRow>>
COL_SEPARATOR == "        "
COL_SPACING == Len(COL_SEPARATOR)
U16 == 65536

(* Inputs *)

NoKey == "none"
BadKey == "bad"
Keys == {"q", "j", "k", " ", "\n", "x", BadKey}
TermWidths == {40, 80, 100}
TermErr == <<>>
TermResults == { <<tw>> : tw \in TermWidths } \cup {TermErr}
Overflow == {"panic", "wrap"}

----------------------------------------------------------------------------
(* The catalog main builds: distinct names of different lengths, sizes of  *)
(* different digit counts, 64-character hashes.                            *)

FileName(i) == SubSeq("abcdefghijklmnop", 1, 4 + i)
FileSize(i) == 10 ^ (i + 1)
FileHash(i) ==
    ToString(i) \o "0123456789abcdef0123456789abcdef0123456789abcdef0123456789abcde"
Entry(i) == [name |-> FileName(i), size |-> FileSize(i), hash |-> FileHash(i)]

Injective(f) == \A a, b \in DOMAIN f : f[a] = f[b] => a = b
Catalogs ==
    UNION { { [i \in 1..m |-> Entry(p[i])] :
                p \in { q \in [1..m -> 1..m] : Injective(q) } } : m \in 1..MaxRows }

Max(a, b) == IF a >= b THEN a ELSE b

RECURSIVE MaxSeq(_)
MaxSeq(s) == IF s = <<>> THEN 0 ELSE Max(Head(s), MaxSeq(Tail(s)))

Widths(d) ==
    <<MaxSeq([i \in 1..Len(d) |-> Len(d[i].name)]),
      MaxSeq([i \in 1..Len(d) |-> Len(ToString(d[i].size))]),
      MaxSeq([i \in 1..Len(d) |-> Len(d[i].hash)])>>

RECURSIVE Spaces(_)
Spaces(k) == IF k <= 0 THEN "" ELSE " " \o Spaces(k - 1)

PadRight(s, width) == s \o Spaces(width - Len(s))
PadLeft(s, width) == Spaces(width - Len(s)) \o s

FormatRow(e, ws) ==
    PadRight(e.name, ws[1]) \o COL_SEPARATOR
        \o PadLeft(ToString(e.size), ws[2]) \o COL_SEPARATOR
        \o SubSeq(e.hash, 1, 20) \o "..."

Display(d, ws) == [i \in 1..Len(d) |-> <<FormatRow(d[i], ws), FALSE>>]

KeysReversed(d) == [i \in 1..Len(d) |-> d[Len(d) + 1 - i].name]
DataKeys(d) == [i \in 1..Len(d) |-> d[i].name]

----------------------------------------------------------------------------
(* Layout::new.  The arithmetic is u16: an overflowing subtraction or      *)
(* addition panics when the build checks overflow and wraps when it does   *)
(* not; terminal_size().unwrap() panics when the size cannot be read.      *)

Wrap16(x) == x % U16
Round(x) == (x + 1) \div 2

LayoutOverflows(ws, rows, rw, border, tw) ==
    LET mid == tw \div 2
        cent == mid - Round(rw)
    IN  \/ cent < 0
        \/ cent - 4 < 0
        \/ cent + ws[1] + COL_SPACING + ws[2] + COL_SPACING >= U16
        \/ border[2] + rows + 7 >= U16

\* Layout::new with the footer at `border.1 + n as u16 + 5`
LayoutFooterAdjacent(ws, rows, rw, border, tw) ==
    LET mid == tw \div 2
        cent == Wrap16(mid - Round(rw))
        name == <<cent, Wrap16(border[2] + 3)>>
        size == <<Wrap16(name[1] + ws[1] + COL_SPACING), Wrap16(border[2] + 3)>>
        hash == <<Wrap16(size[1] + ws[2] + COL_SPACING), Wrap16(border[2] + 3)>>
    IN  [header |-> <<cent, border[2]>>,
         name   |-> name,
         size   |-> size,
         hash   |-> hash,
         list   |-> <<Wrap16(cent - 4), Wrap16(border[2] + 5)>>,
         footer |-> <<cent, Wrap16(border[2] + rows + 5)>>]

\* Layout::new, the coordinates it computes
LayoutWrapped(ws, rows, rw, border, tw) ==
    LET mid == tw \div 2
        cent == Wrap16(mid - Round(rw))
        name == <<cent, Wrap16(border[2] + 3)>>
        size == <<Wrap16(name[1] + ws[1] + COL_SPACING), Wrap16(border[2] + 3)>>
        hash == <<Wrap16(size[1] + ws[2] + COL_SPACING), Wrap16(border[2] + 3)>>
    IN  [header |-> <<cent, border[2]>>,
         name   |-> name,
         size   |-> size,
         hash   |-> hash,
         list   |-> <<Wrap16(cent - 4), Wrap16(border[2] + 5)>>,
         footer |-> <<cent, Wrap16(border[2] + rows + 7)>>]

LayoutPanics(ws, rows, rw, border, ts, ovf) ==
    \/ ts = TermErr
    \/ ovf = "panic" /\ LayoutOverflows(ws, rows, rw, border, ts[1])

LayoutNew(ws, rows, rw, border, ts) == LayoutWrapped(ws, rows, rw, border, ts[1])

----------------------------------------------------------------------------
(* The terminal.  A line is the set of cells written on it since it was    *)
(* last cleared; a cell is the text written at a column, with its style.   *)

Blank == [r \in {} |-> {}]

Marker(sel) == IF sel THEN "x" ELSE " "
RowText(d) == "[" \o Marker(d[2]) \o "] " \o d[1]

LineAt(scr, row) == IF row \in DOMAIN scr THEN scr[row] ELSE {}

\* write_line: Goto(pos), the text, style::Reset.  clearLine: the text starts
\* with clear::CurrentLine.
WriteLine(scr, pos, text, style, clearLine) ==
    LET cell == [col |-> pos[1], text |-> text, style |-> style]
        kept == IF clearLine THEN {}
                ELSE { c \in LineAt(scr, pos[2]) : c.col # pos[1] }
    IN  [r \in DOMAIN scr \cup {pos[2]} |->
            IF r = pos[2] THEN kept \cup {cell} ELSE scr[r]]

RECURSIVE WriteItems(_, _, _, _)
WriteItems(scr, l, d, i) ==
    IF i > Len(d) THEN scr
    ELSE WriteItems(WriteLine(scr, <<l.list[1], l.list[2] + (i - 1)>>,
                              RowText(d[i]), "list", FALSE),
                    l, d, i + 1)

WriteLayout(scr, l, d) ==
    LET s1 == WriteLine(scr, l.header, "Connected to the server at 123.1.2.3:8080",
                        "header", FALSE)
        s2 == WriteLine(s1, l.footer, "Press 'q' to quit", "footer", FALSE)
        s3 == WriteLine(s2, l.name, "Name", "title", FALSE)
        s4 == WriteLine(s3, l.size, "Size", "title", FALSE)
        s5 == WriteLine(s4, l.hash, "SHA-256", "title", FALSE)
    IN  WriteItems(s5, l, d, 1)

SetPointer(scr, p, d, i) == WriteLine(scr, p, RowText(d[i + 1]), "pointer", TRUE)

\* clear_pointer with pos = self.pointer
ClearPointerHere(scr, p, d, i, direction) ==
    IF direction = "Up"
    THEN WriteLine(scr, p, RowText(d[(i + 1) + 1]), "list", TRUE)
    ELSE WriteLine(scr, p, RowText(d[(i - 1) + 1]), "list", TRUE)

\* clear_pointer
ClearPointer(scr, p, d, i, direction) ==
    IF direction = "Up"
    THEN WriteLine(scr, <<p[1], p[2] + 1>>, RowText(d[(i + 1) + 1]), "list", TRUE)
    ELSE WriteLine(scr, <<p[1], p[2] - 1>>, RowText(d[(i - 1) + 1]), "list", TRUE)

DlFooter(scr, l) ==
    WriteLine(scr, l.footer, "Downloading the selected files...", "footer", FALSE)

\* The part of the state one iteration of run reads and writes, with what the
\* iteration has done so far: the channel poll that found a message (polled)
\* and the output operations it completed (drawn)
Cur ==
    [display |-> display, lay |-> lay, pointer |-> pointer, index |-> index,
     winch |-> winch, dl_rx |-> dl_rx, tasks |-> tasks,
     screen |-> screen, cursorVisible |-> cursorVisible,
     polled |-> "none", drawn |-> <<>>, failed |-> "none",
     exit |-> "none", result |-> "none"]

\* One output operation
Apply(s, op) ==
    CASE op = "raw_mode"     -> s
      [] op = "clear"        -> [s EXCEPT !.screen = Blank, !.cursorVisible = FALSE]
      [] op = "write_layout" -> [s EXCEPT !.screen = WriteLayout(@, s.lay, s.display)]
      [] op = "flush"        -> s
      [] op = "set_pointer"  ->
            [s EXCEPT !.screen = SetPointer(@, s.pointer, s.display, s.index)]
      [] op = "clear_pointer_up" ->
            [s EXCEPT !.screen = ClearPointer(@, s.pointer, s.display, s.index, "Up")]
      [] op = "clear_pointer_down" ->
            [s EXCEPT !.screen = ClearPointer(@, s.pointer, s.display, s.index, "Down")]
      [] op = "init_dl"      -> [s EXCEPT !.screen = DlFooter(@, s.lay)]
      [] op = "show"         -> [s EXCEPT !.cursorVisible = TRUE]

NoFail == "none"
FailPoints ==
    {NoFail, "raw_mode", "clear", "write_layout", "flush", "set_pointer",
     "clear_pointer_up", "clear_pointer_down", "init_dl", "show"}

Leave(s, why, res) == [s EXCEPT !.exit = why, !.result = res]

\* display[..] with an index out of bounds panics
InBounds(d, i) == (i + 1) \in DOMAIN d

Indexes(s, op) ==
    CASE op = "set_pointer"        -> InBounds(s.display, s.index)
      [] op = "clear_pointer_up"   -> InBounds(s.display, s.index + 1)
      [] op = "clear_pointer_down" -> InBounds(s.display, s.index - 1)
      [] OTHER                     -> TRUE

\* The output operations of a handler in order, up to the one that fails
RECURSIVE RunOps(_, _, _)
RunOps(s, ops, fail) ==
    IF ops = <<>> THEN s
    ELSE IF ~Indexes(s, Head(ops)) THEN Leave(s, "panic", "panic")
    ELSE IF Head(ops) = fail THEN [s EXCEPT !.failed = fail]
    ELSE RunOps([Apply(s, Head(ops)) EXCEPT !.drawn = Append(@, Head(ops))],
                Tail(ops), fail)

\* Every write and flush of run is followed by `?`: the first failure returns
\* the error
Try(s, ops, fail) ==
    LET r == RunOps(s, ops, fail)
    IN  IF r.failed # NoFail THEN Leave(r, "io_error", "err") ELSE r

\* break, then write!(stdout, "{}", cursor::Show).unwrap(); Ok(())
Break(s, why, fail) ==
    LET r == RunOps(s, <<"show">>, fail)
    IN  Leave(r, why, IF r.failed # NoFail THEN "panic" ELSE "ok")

FullRedraw == <<"clear", "write_layout", "flush">>

----------------------------------------------------------------------------
(* The state machine of the selection *)

\* update_pointer with `index <= n - 1` for `index < n - 1`
UpdatePointerPastLast(p, i, rows, direction) ==
    IF direction = "Up" /\ i > 0 /\ i <= rows
    THEN [moved |-> TRUE, pointer |-> <<p[1], p[2] - 1>>, index |-> i - 1]
    ELSE IF direction = "Down" /\ i <= rows - 1
    THEN [moved |-> TRUE, pointer |-> <<p[1], p[2] + 1>>, index |-> i + 1]
    ELSE [moved |-> FALSE, pointer |-> p, index |-> i]

\* update_pointer without `self.pointer.1 -= 1`
UpdatePointerStale(p, i, rows, direction) ==
    IF direction = "Up" /\ i > 0 /\ i <= rows
    THEN [moved |-> TRUE, pointer |-> p, index |-> i - 1]
    ELSE IF direction = "Down" /\ i < rows - 1
    THEN [moved |-> TRUE, pointer |-> <<p[1], p[2] + 1>>, index |-> i + 1]
    ELSE [moved |-> FALSE, pointer |-> p, index |-> i]

\* update_pointer: the new pointer and index, and whether it moved
UpdatePointer(p, i, rows, direction) ==
    IF direction = "Up" /\ i > 0 /\ i <= rows
    THEN [moved |-> TRUE, pointer |-> <<p[1], p[2] - 1>>, index |-> i - 1]
    ELSE IF direction = "Down" /\ i < rows - 1
    THEN [moved |-> TRUE, pointer |-> <<p[1], p[2] + 1>>, index |-> i + 1]
    ELSE [moved |-> FALSE, pointer |-> p, index |-> i]

\* the 'j' and 'k' arms with set_pointer outside the `if`
MoveAlwaysDraws(s, direction, fail) ==
    LET u == UpdatePointer(s.pointer, s.index, n, direction)
        clear == IF direction = "Up" THEN "clear_pointer_up" ELSE "clear_pointer_down"
    IN  IF u.moved
        THEN Try([s EXCEPT !.pointer = u.pointer, !.index = u.index],
                 <<"set_pointer", clear>>, fail)
        ELSE Try(s, <<"set_pointer">>, fail)

\* run, the 'j' and 'k' arms
Move(s, direction, fail) ==
    LET u == UpdatePointer(s.pointer, s.index, n, direction)
        clear == IF direction = "Up" THEN "clear_pointer_up" ELSE "clear_pointer_down"
    IN  IF u.moved
        THEN Try([s EXCEPT !.pointer = u.pointer, !.index = u.index],
                 <<"set_pointer", clear>>, fail)
        ELSE s

\* the ' ' arm with `= true` for `= !...`
ToggleSets(d, i) == [d EXCEPT ![i + 1] = <<@[1], TRUE>>]

\* run, the ' ' arm
Toggle(d, i) == [d EXCEPT ![i + 1] = <<@[1], ~@[2]>>]

\* the ' ' arm without set_pointer
ToggleSelectionNoDraw(s, fail) ==
    IF ~InBounds(s.display, s.index) THEN Leave(s, "panic", "panic")
    ELSE [s EXCEPT !.display = Toggle(@, s.index)]

\* run, the ' ' arm with its bounds check and its redraw
ToggleSelection(s, fail) ==
    IF ~InBounds(s.display, s.index) THEN Leave(s, "panic", "panic")
    ELSE Try([s EXCEPT !.display = Toggle(@, s.index)], <<"set_pointer">>, fail)

\* init_dl: the names at the positions of the selected rows
RECURSIVE Collect(_, _, _)
Collect(d, ks, i) ==
    IF i > Len(d) THEN <<>>
    ELSE (IF d[i][2] THEN <<ks[i]>> ELSE <<>>) \o Collect(d, ks, i + 1)

Filenames(d, dat) == Collect(d, DataKeys(dat), 1)

\* thread::spawn(move || mock(&filenames, dl_tx).unwrap())
Spawn(ts, names) == Append(ts, [filenames |-> names, st |-> "sleeping"])

\* run, the '\n' arm: dl_rx = Some(self.init_dl(&mut stdout)?)
Confirm(s, fail) ==
    LET r == Try(s, <<"init_dl">>, fail)
    IN  IF r.exit # "none" THEN r
        ELSE [r EXCEPT !.tasks = Spawn(@, Filenames(s.display, data)),
                       !.dl_rx = Len(s.tasks) + 1]

\* refresh_layout without `self.index = 0`
RefreshLayoutKeepsIndex(s, ts) ==
    LET l == LayoutNew(widths, n, w, BORDER, ts)
    IN  [s EXCEPT !.lay = l, !.pointer = l.list]

\* refresh_layout
RefreshLayout(s, ts) ==
    LET l == LayoutNew(widths, n, w, BORDER, ts)
    IN  [s EXCEPT !.lay = l, !.pointer = l.list, !.index = 0]

\* run, lines 129-133
Resize(s, ts, ovf, fail) ==
    LET a == [s EXCEPT !.winch = @ - 1, !.polled = "resize"]
    IN  IF LayoutPanics(widths, n, w, BORDER, ts, ovf)
        THEN Leave(a, "panic", "panic")
        ELSE Try(RefreshLayout(a, ts), FullRedraw, fail)

\* run, lines 134-138: rx.try_recv().is_ok() takes the message
Completed(s) == s.dl_rx # 0 /\ s.tasks[s.dl_rx].st = "sent"

Completion(s, fail) ==
    Break([s EXCEPT !.polled = "completion", !.tasks[s.dl_rx].st = "received"],
          "completion", fail)

\* the channel polls with the completion channel polled first
PollChannelsCompletionFirst(s, ts, ovf, fail) ==
    IF Completed(s) THEN Completion(s, fail)
    ELSE IF s.winch > 0 THEN Resize(s, ts, ovf, fail)
    ELSE s

\* run, lines 129-138: the channel polls of one iteration
PollChannels(s, ts, ovf, fail) ==
    IF s.winch > 0 THEN Resize(s, ts, ovf, fail)
    ELSE IF Completed(s) THEN Completion(s, fail)
    ELSE s

\* the match with ' ' ignored while a download is active
HandleKeyToggleBlocked(s, k, fail) ==
    CASE k = NoKey  -> s
      [] k = BadKey -> Leave(s, "parse_error", "err")
      [] k = "q"    -> Break(s, "quit", fail)
      [] k = "j"    -> Move(s, "Down", fail)
      [] k = "k"    -> Move(s, "Up", fail)
      [] k = " "    -> IF s.dl_rx # 0 THEN s ELSE ToggleSelection(s, fail)
      [] k = "\n"   -> Confirm(s, fail)
      [] OTHER      -> s

\* the match with 'q' ignored while a download is active
HandleKeyQuitBlocked(s, k, fail) ==
    CASE k = NoKey  -> s
      [] k = BadKey -> Leave(s, "parse_error", "err")
      [] k = "q"    -> IF s.dl_rx # 0 THEN s ELSE Break(s, "quit", fail)
      [] k = "j"    -> Move(s, "Down", fail)
      [] k = "k"    -> Move(s, "Up", fail)
      [] k = " "    -> ToggleSelection(s, fail)
      [] k = "\n"   -> Confirm(s, fail)
      [] OTHER      -> s

\* the match with `_ => break` for `_ => {}`
HandleKeyOtherBreaks(s, k, fail) ==
    CASE k = NoKey  -> s
      [] k = BadKey -> Leave(s, "parse_error", "err")
      [] k = "q"    -> Break(s, "quit", fail)
      [] k = "j"    -> Move(s, "Down", fail)
      [] k = "k"    -> Move(s, "Up", fail)
      [] k = " "    -> ToggleSelection(s, fail)
      [] k = "\n"   -> Confirm(s, fail)
      [] OTHER      -> Break(s, "quit", fail)

\* run, lines 140-166: parse_event and the match on the event
HandleKey(s, k, fail) ==
    CASE k = NoKey  -> s
      [] k = BadKey -> Leave(s, "parse_error", "err")
      [] k = "q"    -> Break(s, "quit", fail)
      [] k = "j"    -> Move(s, "Down", fail)
      [] k = "k"    -> Move(s, "Up", fail)
      [] k = " "    -> ToggleSelection(s, fail)
      [] k = "\n"   -> Confirm(s, fail)
      [] OTHER      -> s

\* One iteration of the loop
Iteration(s, k, ts, ovf, fail) ==
    LET a == PollChannels(s, ts, ovf, fail)
    IN  IF a.exit # "none" THEN a ELSE HandleKey(a, k, fail)

----------------------------------------------------------------------------
(* Interface::new: the states construction can return.  A construction    *)
(* that panics in Layout::new returns no interface.                        *)

Init ==
    \E d \in Catalogs, ts \in TermResults, ovf \in Overflow :
        LET ws == Widths(d)
            disp == Display(d, ws)
            rows == Len(disp)
            rw == Len(disp[1][1])
            l == LayoutNew(ws, rows, rw, BORDER, ts)
        IN  /\ ~LayoutPanics(ws, rows, rw, BORDER, ts, ovf)
            /\ data = d
            /\ widths = ws
            /\ display = disp
            /\ n = rows
            /\ w = rw
            /\ lay = l
            /\ pointer = l.list
            /\ index = 0
            /\ pc = "start"
            /\ winch = 0
            /\ listener = "none"
            /\ dl_rx = 0
            /\ tasks = <<>>
            /\ screen = Blank
            /\ cursorVisible = TRUE
            /\ failed = NoFail
            /\ exit = "none"
            /\ result = "none"

\* The state after a step of run that ends in s
Becomes(s) ==
    /\ display' = s.display
    /\ lay' = s.lay
    /\ pointer' = s.pointer
    /\ index' = s.index
    /\ winch' = s.winch
    /\ dl_rx' = s.dl_rx
    /\ tasks' = s.tasks
    /\ screen' = s.screen
    /\ cursorVisible' = s.cursorVisible
    /\ failed' = s.failed
    /\ exit' = s.exit
    /\ result' = s.result
    /\ pc' = IF s.exit # "none" THEN "exited" ELSE "loop"
    /\ UNCHANGED <<data, widths, n, w>>

(* run, up to the loop: spawn the listener, take the terminal, draw *)

Startup(s, fail) ==
    LET r == RunOps(s, <<"raw_mode">> \o FullRedraw, fail)
    IN  IF r.failed # NoFail THEN Leave(r, "startup_error", "err") ELSE r

RunStart(fail) ==
    /\ pc = "start"
    /\ listener' = "starting"
    /\ Becomes(Startup(Cur, fail))

(* run, the loop *)

\* The output operations an iteration that reads k may reach
KeyOps(k) ==
    CASE k = "q"  -> {"show"}
      [] k = "j"  -> {"set_pointer", "clear_pointer_down"}
      [] k = "k"  -> {"set_pointer", "clear_pointer_up"}
      [] k = " "  -> {"set_pointer"}
      [] k = "\n" -> {"init_dl"}
      [] OTHER    -> {}

Reachable(k) ==
    IF winch > 0 THEN {"clear", "write_layout", "flush"} \cup KeyOps(k)
    ELSE IF Completed(Cur) THEN {"show"}
    ELSE KeyOps(k)

\* k: the byte read; ts: what terminal_size() returns; ovf: what an overflow
\* does in this build; fail: the output operation that fails.  An input the
\* iteration does not read is fixed.
Tick(k, ts, ovf, fail) ==
    /\ pc = "loop"
    /\ k = "\n" => Len(tasks) < MaxTasks
    /\ fail \in {NoFail} \cup Reachable(k)
    /\ winch = 0 => ts = TermErr
    /\ (ts = TermErr \/ ~LayoutOverflows(widths, n, w, BORDER, ts[1])) => ovf = "wrap"
    /\ (winch > 0 /\ LayoutPanics(widths, n, w, BORDER, ts, ovf)) => fail = NoFail
    /\ Becomes(Iteration(Cur, k, ts, ovf, fail))
    /\ UNCHANGED listener

----------------------------------------------------------------------------
(* The auxiliary threads, which live as long as the process does *)

\* sigwinch_handler: one message per signal
Sigwinch ==
    /\ pc = "loop"
    /\ listener \in {"starting", "listening"}
    /\ winch < MaxWinch
    /\ winch' = winch + 1
    /\ listener' = "listening"
    /\ UNCHANGED <<iface, pc, dl_rx, tasks, screen, cursorVisible, failed, exit,
                   result>>

\* sigwinch_handler: Signals::new fails, the thread's unwrap panics and the
\* sender is dropped
ListenerFails ==
    /\ pc = "loop"
    /\ listener = "starting"
    /\ listener' = "dead"
    /\ UNCHANGED <<iface, pc, winch, dl_rx, tasks, screen, cursorVisible, failed,
                   exit, result>>

\* mock: the sleep is over; send fails, and the thread's unwrap panics, when
\* run has dropped this task's receiver.  The thread ends either way, and its
\* filenames with it.
MockSend(t) ==
    /\ pc = "loop"
    /\ tasks[t].st = "sleeping"
    /\ tasks' = [tasks EXCEPT ![t] =
                    [filenames |-> <<>>,
                     st |-> IF dl_rx = t THEN "sent" ELSE "panicked"]]
    /\ UNCHANGED <<iface, pc, winch, listener, dl_rx, screen, cursorVisible, failed,
                   exit, result>>

Next ==
    \/ \E fail \in FailPoints : RunStart(fail)
    \/ \E k \in Keys \cup {NoKey} :
          \E ts \in IF winch > 0 THEN TermResults ELSE {TermErr} :
             \E ovf \in Overflow, fail \in {NoFail} \cup Reachable(k) :
                Tick(k, ts, ovf, fail)
    \/ Sigwinch
    \/ ListenerFails
    \/ \E t \in DOMAIN tasks : MockSend(t)

Spec == Init /\ [][Next]_vars

----------------------------------------------------------------------------
(* Properties *)

Loop == pc = "loop"

\* What terminal_size() and the build can do in the next iteration
Resizes ==
    { x \in TermResults \X Overflow :
        ~LayoutPanics(widths, n, w, BORDER, x[1], x[2]) }

\* The states in which the next iteration decodes the byte it read: the
\* current one, or the one its resize handler leaves
Dispatching ==
    IF winch > 0
    THEN { Resize(Cur, x[1], x[2], NoFail) : x \in Resizes }
    ELSE IF Completed(Cur) THEN {} ELSE {Cur}

\* What an iteration can read of the terminal and of the build: nothing
\* unless it handles a resize
Sizes == IF winch > 0 THEN TermResults ELSE {TermErr}

Builds == IF winch > 0 THEN Overflow ELSE {"wrap"}

Selected(d) == { i \in 1..Len(d) : d[i][2] }

Highlighted(scr, row) == \E c \in LineAt(scr, row) : c.style = "pointer"

\* C1: for every row count n >= 1, the selected index stays within [0, n-1]
\* in every reachable state, whatever keys, resizes and confirmations came.
C1_IndexInRange == n >= 1 /\ index \in 0..(n - 1)

C1_Witness ==
    /\ Loop
    /\ n >= 2
    /\ index = n - 1
    /\ Len(tasks) > 0
    /\ Selected(display) # {}
    /\ winch > 0

\* C2: in every reachable state the pointer is the list origin of the layout,
\* offset by the selected index in rows.
C2_PointerAtIndex == pointer = <<lay.list[1], lay.list[2] + index>>

C2_Witness ==
    /\ Loop
    /\ index = 1
    /\ pointer[2] = lay.list[2] + 1
    /\ Highlighted(screen, pointer[2])
    /\ lay.header[1] + w >= U16

\* C3: MoveDown at the last row and MoveUp at row 0 are no-ops: whatever
\* state the key is decoded in, the handler changes no field, raises no
\* error and issues no output operation.
C3_EdgeMovesAreNoOps ==
    Loop =>
        \A a \in Dispatching, fail \in FailPoints :
            /\ a.index = n - 1 => HandleKey(a, "j", fail) = a
            /\ a.index = 0 => HandleKey(a, "k", fail) = a

C3_Witness ==
    /\ Loop
    /\ n >= 2
    /\ index = n - 1
    /\ Highlighted(screen, pointer[2])
    /\ Cur \in Dispatching

\* C4: ToggleSelection flips the flag of the row at the selected index and
\* leaves every other row, every row's text, the index, the pointer and the
\* layout as they were; applied twice it restores the flags.
C4_ToggleFlipsOneRow ==
    Loop =>
        \A a \in Dispatching, fail \in FailPoints :
            LET b == HandleKey(a, " ", fail)
                c == HandleKey(b, " ", NoFail)
            IN  /\ b.display[a.index + 1][2] = ~a.display[a.index + 1][2]
                /\ \A i \in 1..n : i # a.index + 1 => b.display[i] = a.display[i]
                /\ \A i \in 1..n : b.display[i][1] = a.display[i][1]
                /\ DOMAIN b.display = DOMAIN a.display
                /\ b.index = a.index
                /\ b.pointer = a.pointer
                /\ b.lay = a.lay
                /\ b.exit = "none" => c.display = a.display

C4_Witness ==
    /\ Loop
    /\ n >= 2
    /\ Selected(display) = {index + 1}
    /\ \E c \in LineAt(screen, pointer[2]) :
          c.style = "pointer" /\ c.text = RowText(display[index + 1])
    /\ Cur \in Dispatching

\* C5: handling a resize signal, from any prior index, sets the index to 0
\* and the pointer to the list origin of the layout computed for the new
\* terminal size, leaves every row as it was and, unless a write fails,
\* clears the screen and draws the full frame.
C5_ResizeResets ==
    (Loop /\ winch > 0) =>
        \A x \in Resizes, fail \in FailPoints :
            LET a == PollChannels(Cur, x[1], x[2], fail)
                l == LayoutNew(widths, n, w, BORDER, x[1])
            IN  /\ a.index = 0
                /\ a.lay = l
                /\ a.pointer = l.list
                /\ a.display = display
                /\ a.winch = winch - 1
                /\ a.tasks = tasks
                /\ (fail \notin {"clear", "write_layout", "flush"}) =>
                      /\ a.exit = "none"
                      /\ a.drawn = FullRedraw
                      /\ a.screen = WriteLayout(Blank, l, display)
                      /\ ~a.cursorVisible

C5_Witness ==
    /\ Loop
    /\ winch > 0
    /\ index > 0
    /\ Selected(display) # {}
    /\ Resizes # {}

\* C6: Confirm takes effect at most once per run: at most one background
\* task is ever launched.
C6_AtMostOneTask == Len(tasks) <= 1

\* The catalog entry a row was formatted from
EntryOf(text) ==
    CHOOSE e \in { data[i] : i \in DOMAIN data } : FormatRow(e, widths) = text

SelectedNames(d) ==
    LET rows == SelectSeq([i \in 1..Len(d) |-> i], LAMBDA i : d[i][2])
    IN  [j \in 1..Len(rows) |-> EntryOf(d[rows[j]][1]).name]

\* C7: the names handed to the download thread on Confirm are exactly the
\* names of the catalog entries whose row is selected at that moment, in row
\* order.
C7_SnapshotIsSelection ==
    Loop =>
        \A a \in Dispatching :
            LET b == HandleKey(a, "\n", NoFail)
            IN  /\ Len(b.tasks) = Len(a.tasks) + 1
                /\ b.tasks[Len(b.tasks)].filenames = SelectedNames(a.display)
                /\ b.tasks[Len(b.tasks)].st = "sleeping"
                /\ b.dl_rx = Len(b.tasks)

C7_Witness ==
    /\ Loop
    /\ n >= 2
    /\ Selected(display) = {n}
    /\ \E t \in DOMAIN tasks :
          /\ tasks[t].st = "sleeping"
          /\ tasks[t].filenames = <<EntryOf(display[n][1]).name>>
    /\ data[1].name # FileName(1)

\* C8: Quit is legal in every state, also while a download is active: the
\* iteration that decodes 'q' leaves the loop and launches no task.
C8_QuitLeaves ==
    Loop =>
        \A a \in Dispatching, fail \in FailPoints :
            LET b == HandleKey(a, "q", fail)
            IN  /\ b.exit = "quit"
                /\ b.tasks = a.tasks
                /\ b.dl_rx = a.dl_rx
                /\ b.display = a.display
                /\ fail # "show" => b.result = "ok" /\ b.cursorVisible

C8_Witness ==
    /\ pc = "exited"
    /\ exit = "quit"
    /\ result = "ok"
    /\ \E t \in DOMAIN tasks : tasks[t].st = "sleeping" /\ dl_rx = t

\* C9 as claimed: an iteration serves at most one source: with a resize
\* pending only the resize is handled, and with a completion signaled the
\* loop ends; no key is dispatched in either.
C9_OneSourcePerTick ==
    [][Loop =>
        /\ (winch > 0 /\ winch' < winch) =>
              /\ display' = display
              /\ tasks' = tasks
              /\ exit' \notin {"quit", "parse_error"}
              /\ pc' = "loop" => index' = 0
        /\ (winch = 0 /\ Completed(Cur) /\ pc' = "exited") => exit' = "completion"]_vars

\* C9, amended: an iteration polls the resize channel first and the
\* completion channel only when no resize signal was there; a signaled
\* completion ends the loop without the byte being decoded; in every
\* iteration the poll does not end, the byte read is decoded and handled,
\* also right after a resize.
C9_PollOrder ==
    Loop =>
        \A k \in Keys \cup {NoKey}, ts \in Sizes, ovf \in Builds :
          \A fail \in {NoFail} \cup Reachable(k) :
            LET a == PollChannels(Cur, ts, ovf, fail)
                r == Iteration(Cur, k, ts, ovf, fail)
            IN  /\ winch > 0 =>
                    /\ a.polled = "resize"
                    /\ a.winch = winch - 1
                    /\ a.tasks = tasks
                    /\ a.exit # "completion"
                /\ (winch = 0 /\ Completed(Cur)) =>
                    /\ r.polled = "completion"
                    /\ r.exit = "completion"
                    /\ r.display = display
                    /\ r.index = index
                    /\ Len(r.tasks) = Len(tasks)
                    /\ r.drawn \in {<<>>, <<"show">>}
                /\ (winch = 0 /\ ~Completed(Cur)) => a = Cur
                /\ a.exit = "none" =>
                    /\ r = HandleKey(a, k, fail)
                    /\ (k = " " /\ fail = NoFail) =>
                          /\ r.display = Toggle(display, a.index)
                          /\ r.drawn = a.drawn \o <<"set_pointer">>
                    /\ k = "q" => r.exit = "quit"

C9_Witness ==
    /\ Loop
    /\ winch > 0
    /\ Completed(Cur)
    /\ Selected(display) # {}
    /\ Resizes # {}

\* C10 as claimed: the loop is left only through the quit key or the
\* completion signal.
C10_OnlyQuitOrCompletion ==
    (pc = "exited" /\ exit # "startup_error") => exit \in {"quit", "completion"}

\* C10, amended: run returns Ok only through the quit key or the completion
\* signal; the loop is also left by the error of a failed write or flush, by
\* the error of an undecodable input and by a panic of the layout
\* computation in a resize; no other key, no missing input and no closed
\* channel ends it.
C10_ExitCauses ==
    Loop =>
        \A k \in Keys \cup {NoKey}, ts \in Sizes, ovf \in Builds :
          \A fail \in {NoFail} \cup Reachable(k) :
            LET a == PollChannels(Cur, ts, ovf, fail)
                r == Iteration(Cur, k, ts, ovf, fail)
            IN  /\ r.exit \in {"none", "quit", "completion", "io_error",
                               "parse_error", "panic"}
                /\ r.exit = "quit" => k = "q" /\ a.exit = "none"
                /\ r.exit = "completion" => winch = 0 /\ Completed(Cur)
                /\ r.exit = "io_error" => fail # NoFail /\ r.failed = fail
                /\ r.exit = "parse_error" => k = BadKey /\ a.exit = "none"
                /\ r.exit = "panic" =>
                      winch > 0 /\ LayoutPanics(widths, n, w, BORDER, ts, ovf)
                /\ r.result = "ok" <=>
                      (r.exit \in {"quit", "completion"} /\ r.failed = NoFail)
                /\ (k = BadKey /\ a.exit = "none") => r.exit = "parse_error"
                /\ (r.failed # NoFail /\ r.exit \notin {"quit", "completion"}) =>
                      r.exit = "io_error" /\ r.result = "err"
                /\ (k \in {NoKey, "x"} /\ winch = 0 /\ ~Completed(Cur)) => r = Cur

C10_Witness ==
    /\ pc = "exited"
    /\ exit = "io_error"
    /\ failed = "clear_pointer_down"
    /\ result = "err"
    /\ listener = "dead"

\* C11: on every path by which run returns after a redraw hid the cursor, a
\* normal return as well as the return of a write, flush or decode error,
\* the cursor is visible again.
C11_CursorRestored ==
    (pc = "exited" /\ result \in {"ok", "err"}) => cursorVisible

\* The terminal is narrower than the content and its margin: half its width
\* is less than half the row width, or the centred column is less than 4
Infeasible(rw, tw) ==
    \/ tw \div 2 < Round(rw)
    \/ (tw \div 2) - Round(rw) < 4

\* C12: a layout computation for a terminal that is too narrow returns an
\* error: the resize neither panics nor stores wrapped coordinates.
C12_InfeasibleIsError ==
    (Loop /\ winch > 0) =>
        \A tw \in TermWidths, ovf \in Overflow :
            Infeasible(w, tw) =>
                LET r == Resize(Cur, <<tw>>, ovf, NoFail)
                IN  /\ r.exit \notin {"none", "panic"}
                    /\ r.result = "err"
                    /\ r.lay = lay

\* C13: once the listener thread has ended and its channel is closed, the
\* next iteration, whatever it reads, ends the loop with an error.
C13_ClosedChannelIsFatal ==
    (Loop /\ listener = "dead") =>
        \A k \in Keys \cup {NoKey} :
            LET r == Iteration(Cur, k, TermErr, "wrap", NoFail)
            IN  r.exit # "none" /\ r.result = "err"

\* C14: every task launched by Confirm emits its completion signal (no
\* task's send fails), and once a signal was emitted, an iteration with no
\* resize pending ends the loop with success.
C14_CompletionEndsLoop ==
    /\ \A t \in DOMAIN tasks : tasks[t].st # "panicked"
    /\ (Loop /\ winch = 0 /\ \E t \in DOMAIN tasks : tasks[t].st = "sent") =>
          \A k \in Keys \cup {NoKey} :
              LET r == Iteration(Cur, k, TermErr, "wrap", NoFail)
              IN  r.exit = "completion" /\ r.result = "ok"

\* C15: no event is lost while the loop runs: an iteration takes at most one
\* of the pending resize signals, and a completion signal that was emitted
\* stays in the channel the loop polls until the loop receives it.
C15_NoEventLost ==
    [][(Loop /\ pc' = "loop") =>
          /\ winch' >= winch - 1
          /\ \A t \in DOMAIN tasks : tasks[t].st = "sent" => dl_rx' = t]_vars

\* The state s as it would be had no Confirm been issued
Unconfirmed(s) == [s EXCEPT !.dl_rx = 0, !.tasks = <<>>]

\* C16: while a task is in flight, a MoveUp, MoveDown or ToggleSelection key
\* has the effect on the index, the pointer, the rows and the screen that it
\* has without any Confirm, and leaves the tasks and their names untouched.
C16_KeysWorkInFlight ==
    Loop =>
        \A a \in Dispatching, k \in {"j", "k", " "} :
          \A fail \in {NoFail} \cup KeyOps(k) :
            LET b == HandleKey(a, k, fail)
                c == HandleKey(Unconfirmed(a), k, fail)
            IN  /\ b.tasks = a.tasks
                /\ b.dl_rx = a.dl_rx
                /\ Unconfirmed(b) = c

C16_Witness ==
    /\ Loop
    /\ dl_rx # 0
    /\ tasks[dl_rx].st = "sleeping"
    /\ tasks[dl_rx].filenames # SelectedNames(display)
    /\ index > 0

\* The layout holds the coordinates Layout::new computes without overflow
Unwrapped(l) == l.header[1] < U16 \div 2 /\ l.list[1] = l.header[1] - 4

\* The screen lines whose content differs
Changed(s1, s2) ==
    { r \in DOMAIN s1 \cup DOMAIN s2 : LineAt(s1, r) # LineAt(s2, r) }

\* A line showing one row of the list, with its marker, in one style
RowLine(l, row, style) ==
    { [col |-> l.list[1], text |-> RowText(row), style |-> style] }

\* C17: a legal MoveUp or MoveDown rewrites two lines and no other: the line
\* of the row the pointer leaves, plain, with that row's marker and text, and
\* the line of the row it enters, highlighted; a ToggleSelection rewrites the
\* line of the current row and no other.
C17_IncrementalRedraw ==
    Loop =>
        \A a \in Dispatching :
            LET row == a.pointer[2]
                i == a.index + 1
                down == HandleKey(a, "j", NoFail)
                up == HandleKey(a, "k", NoFail)
                tog == HandleKey(a, " ", NoFail)
            IN  Unwrapped(a.lay) =>
                /\ a.index < n - 1 =>
                    /\ down.drawn = a.drawn \o <<"set_pointer", "clear_pointer_down">>
                    /\ Changed(a.screen, down.screen) \subseteq {row, row + 1}
                    /\ LineAt(down.screen, row) = RowLine(a.lay, a.display[i], "list")
                    /\ LineAt(down.screen, row + 1) =
                          RowLine(a.lay, a.display[i + 1], "pointer")
                /\ a.index > 0 =>
                    /\ up.drawn = a.drawn \o <<"set_pointer", "clear_pointer_up">>
                    /\ Changed(a.screen, up.screen) \subseteq {row, row - 1}
                    /\ LineAt(up.screen, row) = RowLine(a.lay, a.display[i], "list")
                    /\ LineAt(up.screen, row - 1) =
                          RowLine(a.lay, a.display[i - 1], "pointer")
                /\ tog.drawn = a.drawn \o <<"set_pointer">>
                /\ Changed(a.screen, tog.screen) = {row}
                /\ LineAt(tog.screen, row) =
                      RowLine(a.lay, <<a.display[i][1], ~a.display[i][2]>>, "pointer")

C17_Witness ==
    /\ Loop
    /\ Unwrapped(lay)
    /\ n >= 2
    /\ index = 1
    /\ display[1][2]
    /\ LineAt(screen, pointer[2]) = RowLine(lay, display[2], "pointer")
    /\ LineAt(screen, pointer[2] - 1) = RowLine(lay, display[1], "list")
    /\ winch = 0

\* The rows of the list shown highlighted on the screen
HighlightedRows == { i \in 1..n : Highlighted(screen, lay.list[2] + (i - 1)) }

\* C18: after every draw exactly one list row is shown highlighted, and it
\* is the row at the selected index.
C18_HighlightSynchronized == Loop => HighlightedRows = {index + 1}

\* C19 as claimed: the titles are 3 rows and the first list row 5 rows below
\* the header, and the footer is on the row right after the last list row.
C19_FooterAfterList ==
    /\ lay.name[2] = lay.header[2] + 3
    /\ lay.list[2] = lay.header[2] + 5
    /\ lay.footer[2] = lay.list[2] + n

\* C19, amended: the header is on row border.1, the three titles are 3 rows
\* and the first list row 5 rows below it, and the footer is n + 2 rows below
\* the first list row: it overlaps no list row, and two rows, which no draw
\* writes to, separate it from the last list row.
C19_LayoutRows ==
    /\ lay.header[2] = BorderRow
    /\ lay.name[2] = lay.header[2] + 3
    /\ lay.size[2] = lay.name[2]
    /\ lay.hash[2] = lay.name[2]
    /\ lay.list[2] = lay.header[2] + 5
    /\ lay.footer[2] = lay.list[2] + n + 2
    /\ Loop =>
          /\ \A i \in 1..n : LineAt(screen, lay.list[2] + (i - 1)) # {}
          /\ LineAt(screen, lay.list[2] + n) = {}
          /\ LineAt(screen, lay.list[2] + n + 1) = {}
          /\ \E c \in LineAt(screen, lay.footer[2]) : c.style = "footer"

C19_Witness ==
    /\ Loop
    /\ Unwrapped(lay)
    /\ n = MaxRows
    /\ lay.header[1] > 4
    /\ \E c \in LineAt(screen, lay.footer[2]) :
          c.text = "Downloading the selected files..."
    /\ winch > 0

\* C20: after every handled event each list line shows its row's text with
\* the marker that equals the row's selected flag.
C20_MarkersConsistent ==
    (Loop /\ Unwrapped(lay)) =>
        \A i \in 1..n :
            \E style \in {"list", "pointer"} :
                LineAt(screen, lay.list[2] + (i - 1)) = RowLine(lay, display[i], style)

C20_Witness ==
    /\ Loop
    /\ Unwrapped(lay)
    /\ n >= 2
    /\ index = 0
    /\ Selected(display) = {2}
    /\ LineAt(screen, lay.list[2]) = RowLine(lay, display[1], "pointer")
    /\ LineAt(screen, lay.list[2] + 1) = RowLine(lay, display[2], "list")
    /\ Len(tasks) > 0

====
